---- MODULE Spec2Model ----
(***************************************************************************)
(* Antigravity Quota Lite: the polling / reconnection orchestrator of      *)
(* extension.ts, with the Process Locator (findConnection) and the Quota   *)
(* Fetcher (fetchQuota) as asynchronous operations whose completion        *)
(* re-enters the orchestrator.                                             *)
(*                                                                         *)
(* Every asynchronous call chain (a command handler, a timer callback, the *)
(* activation) is a task; a task is suspended at one of the awaits of      *)
(* discoverConnection / refreshQuota.  Nothing follows `await              *)
(* refreshQuota()` in discoverConnection or `await discoverConnection()`   *)
(* in refreshQuota, so a task is characterised by the await it is          *)
(* suspended at.  Tasks suspended at the same await are interchangeable,   *)
(* so the tasks in flight form a bag.                                      *)
(***************************************************************************)
EXTENDS Naturals, Integers, Sequences, FiniteSets, Bags, TLC

----------------------------------------------------------------------------
(* Bounds of the model *)

\* asynchronous work outstanding at a time: suspended call chains plus
\* pending setTimeout callbacks (the triggers that add work respect it)
MaxOutstanding == 3
\* cap of connectionRetryCount (the code lets it grow without limit)
MaxRetryCount == 7
\* saturation of the transport-failure streak counters
MaxStreak == 3
\* the processes one process search lists
MaxCandidates == 2
\* the models of one list given to groupModels
MaxModels == 5

----------------------------------------------------------------------------
(* Program constants *)

MAX_CONNECTION_RETRIES == 5
CONNECTION_RETRY_DELAY_MS == 10000
DefaultPollingIntervalSeconds == 60
MinPollingIntervalMs == 10000

\* values of the setting quotaLite.pollingIntervalSeconds tried by the model
ConfigValues == {5, 60}

----------------------------------------------------------------------------
(* Values *)

\* the orchestrator only tests the connection for null and passes it on, so
\* one ConnectionInfo stands for all
NoConnection == [port |-> 0]
ConnectionInfos == {[port |-> 1002]}

NoTimer == 0

\* no function is being applied on its own
NoInput == [fn |-> "none"]
NoOutput == [done |-> FALSE]

\* no snapshot yet (undefined)
NoSnapshot == [models |-> -1]

----------------------------------------------------------------------------
(* Quota Fetcher: parseResponse *)

\* an optional field: absent, or present with a value
None == <<>>
Some(v) == <<v>>
Defined(o) == o # None

\* a string: its words and a trailing parenthetical qualifier ("" if none)
Text(base, variant) == [base |-> base, variant |-> variant]
EmptyText == Text(<<>>, "")
\* JavaScript truthiness of an optional string
Truthy(o) == Defined(o) /\ o[1] # EmptyText

\* numbers that are not integers: num / den with den > 0
Rat(num, den) == [num |-> num, den |-> den]
Times(r, k) == Rat(r.num * k, r.den)
LessEq(a, b) == a.num * b.den <= b.num * a.den
MathMin(a, b) == IF LessEq(a, b) THEN a ELSE b
MathMax(a, b) == IF LessEq(b, a) THEN a ELSE b

\* parseModelQuota: Math.max(0, Math.min(100, remainingPercentage))
clamp(percentage) == MathMax(Rat(0, 1), MathMin(Rat(100, 1), percentage))

\* parseModelQuota: null (None) or a ModelQuotaInfo
parseModelQuota_limitsFirst(raw) ==
    LET label == IF Truthy(raw.label) THEN raw.label ELSE raw.model
        fromQuotaInfo == Defined(raw.quotaInfo) /\ Defined(raw.quotaInfo[1].remainingFraction)
        fromLimits == /\ Defined(raw.limits)
                      /\ Defined(raw.limits[1].remaining)
                      /\ Defined(raw.limits[1].total)
                      /\ raw.limits[1].total[1] > 0
        remainingPercentage ==
            IF fromLimits
            THEN Times(Rat(raw.limits[1].remaining[1], raw.limits[1].total[1]), 100)
            ELSE IF fromQuotaInfo THEN Times(raw.quotaInfo[1].remainingFraction[1], 100)
                 ELSE Rat(0, 1)
    IN  IF ~Truthy(label) THEN None
        ELSE Some([label |-> label[1],
                   modelId |-> IF Truthy(raw.model) THEN raw.model[1] ELSE label[1],
                   remainingPercentage |-> clamp(remainingPercentage),
                   resetTime |-> None])
parseModelQuota(raw) ==
    LET label == IF Truthy(raw.label) THEN raw.label ELSE raw.model
        fromQuotaInfo == Defined(raw.quotaInfo) /\ Defined(raw.quotaInfo[1].remainingFraction)
        fromLimits == /\ Defined(raw.limits)
                      /\ Defined(raw.limits[1].remaining)
                      /\ Defined(raw.limits[1].total)
                      /\ raw.limits[1].total[1] > 0
        remainingPercentage ==
            IF fromQuotaInfo THEN Times(raw.quotaInfo[1].remainingFraction[1], 100)
            ELSE IF fromLimits
                 THEN Times(Rat(raw.limits[1].remaining[1], raw.limits[1].total[1]), 100)
                 ELSE Rat(0, 1)
        resetTime ==
            IF fromQuotaInfo THEN raw.quotaInfo[1].resetTime
            ELSE IF fromLimits THEN raw.limits[1].expiresAt ELSE None
    IN  IF ~Truthy(label) THEN None
        ELSE Some([label |-> label[1],
                   modelId |-> IF Truthy(raw.model) THEN raw.model[1] ELSE label[1],
                   remainingPercentage |-> clamp(remainingPercentage),
                   resetTime |-> resetTime])

\* the loops of parseResponse: the parsed entries of a list, nulls skipped
RECURSIVE parseList(_)
parseList(list) ==
    IF list = <<>> THEN <<>>
    ELSE parseModelQuota(Head(list)) \o parseList(Tail(list))

\* parseResponse: the summary entry built from the overall prompt credits
promptCreditsEntry_clamped(pc) ==
    [label |-> Text(<<"Prompt", "Credits">>, ""),
     modelId |-> Text(<<"prompt_credits">>, ""),
     remainingPercentage |-> clamp(Times(Rat(pc.remaining[1], pc.total[1]), 100)),
     resetTime |-> pc.expiresAt]
promptCreditsEntry(pc) ==
    [label |-> Text(<<"Prompt", "Credits">>, ""),
     modelId |-> Text(<<"prompt_credits">>, ""),
     remainingPercentage |-> Times(Rat(pc.remaining[1], pc.total[1]), 100),
     resetTime |-> pc.expiresAt]

\* String.prototype.toLowerCase, on the words the labels are made of
LowerWord(w) ==
    CASE w = "Gemini" -> "gemini"
      [] w = "Pro" -> "pro"
      [] w = "Flash" -> "flash"
      [] w = "Claude" -> "claude"
      [] w = "Sonnet" -> "sonnet"
      [] w = "Opus" -> "opus"
      [] w = "GPT" -> "gpt"
      [] OTHER -> w

\* a case-insensitive pattern of consecutive words occurs in the words
Matches(words, pattern) ==
    \E i \in 1..Len(words) :
        /\ i + Len(pattern) - 1 <= Len(words)
        /\ \A j \in 1..Len(pattern) : LowerWord(words[i + j - 1]) = pattern[j]

\* inferGroupName: the trailing parenthetical removed, then the known families
inferGroupName(label) ==
    LET base == label.base
    IN  IF Matches(base, <<"gemini", "3", "pro">>) THEN Text(<<"Gemini", "3", "Pro">>, "")
        ELSE IF Matches(base, <<"gemini", "3", "flash">>)
             THEN Text(<<"Gemini", "3", "Flash">>, "")
        ELSE IF Matches(base, <<"gemini">>) THEN Text(<<"Gemini">>, "")
        ELSE IF Matches(base, <<"claude", "sonnet">>) THEN Text(<<"Claude", "Sonnet">>, "")
        ELSE IF Matches(base, <<"claude", "opus">>) THEN Text(<<"Claude", "Opus">>, "")
        ELSE IF Matches(base, <<"claude">>) THEN Text(<<"Claude">>, "")
        ELSE IF Matches(base, <<"gpt">>) THEN Text(<<"GPT">>, "")
        ELSE Text(base, "")

\* the keys of a Map in insertion order: the group names of the models
RECURSIVE groupNames(_, _)
groupNames(models, seen) ==
    IF models = <<>> THEN seen
    ELSE LET name == inferGroupName(Head(models).label)
         IN  groupNames(Tail(models),
                        IF \E i \in DOMAIN seen : seen[i] = name THEN seen
                        ELSE Append(seen, name))

\* the models of a list that belong to the group of a name, in list order
modelsOf_all(models, name) == models
RECURSIVE modelsOf(_, _)
modelsOf(models, name) ==
    IF models = <<>> THEN <<>>
    ELSE (IF inferGroupName(Head(models).label) = name THEN <<Head(models)>> ELSE <<>>)
         \o modelsOf(Tail(models), name)

\* groupModels
groupModels(models) ==
    IF Len(models) = 0 THEN <<>>
    ELSE IF Len(models) <= 3
         THEN <<[name |-> Text(<<"All", "Models">>, ""), models |-> models]>>
         ELSE LET names == groupNames(models, <<>>)
              IN  [i \in DOMAIN names |->
                      [name |-> names[i], models |-> modelsOf(models, names[i])]]

\* parseResponse (fetchedAt, the time of the fetch, is left out)
parseResponse(raw) ==
    LET pc == raw.promptCredits
        first == IF Defined(raw.ideChatModels) THEN parseList(raw.ideChatModels[1]) ELSE <<>>
        second == IF Len(first) = 0 /\ Defined(pc) /\ Defined(pc[1].models)
                  THEN parseList(pc[1].models[1]) ELSE first
        models == IF /\ Len(second) = 0 /\ Defined(pc)
                     /\ Defined(pc[1].remaining) /\ Defined(pc[1].total)
                     /\ pc[1].total[1] > 0
                  THEN <<promptCreditsEntry(pc[1])>> ELSE second
    IN  [groups |-> groupModels(models), models |-> models, fromCache |-> FALSE]

\* raw payloads
PromptCredits(remaining, total, models) ==
    [remaining |-> remaining, total |-> total, expiresAt |-> None, models |-> models]
Payload(ideChatModels, promptCredits) ==
    [ideChatModels |-> ideChatModels, promptCredits |-> promptCredits]

\* the payloads the server answers with in the orchestrator's runs: no quota
\* data, overall credits 30 of 100, overall credits 150 of 100
FetchedPayloads ==
    {Payload(None, None),
     Payload(None, Some(PromptCredits(Some(30), Some(100), None))),
     Payload(None, Some(PromptCredits(Some(150), Some(100), None)))}

Snapshots == {parseResponse(raw) : raw \in FetchedPayloads}

\* error messages, as the chunks of text the orchestrator searches for
ConnectionRefusedMsg == <<"Connection failed", ": ", "connect ECONNREFUSED">>
TimedOutMsg == <<"Request ", "timed out">>
EmptyResponseMsg == <<"Empty response from Language Server">>
InvalidJSONMsg == <<"Invalid JSON response from Language Server">>

TransportMessages == {ConnectionRefusedMsg, TimedOutMsg}
MalformedMessages == {EmptyResponseMsg, InvalidJSONMsg}
ErrorMessages == TransportMessages \cup MalformedMessages

\* String.prototype.includes on a chunked message
Includes(message, needle) == \E i \in DOMAIN message : message[i] = needle

\* the classification of refreshQuota's catch block
IsConnectionFailure_noTimeout(message) == Includes(message, "Connection failed")
IsConnectionFailure_always(message) == TRUE
IsConnectionFailure(message) ==
    Includes(message, "Connection failed") \/ Includes(message, "timed out")

----------------------------------------------------------------------------
VARIABLES
    phase,                  \* "loaded", "active", "deactivated"
    connection,             \* let connection
    pollingTimer,           \* let pollingTimer: period in ms, or NoTimer
    intervals,              \* bag of the periods of the host's live setInterval timers
    lastSnapshot,           \* let lastSnapshot
    connectionRetryCount,   \* let connectionRetryCount
    statusBar,              \* the StatusBarController: text, tooltip, lastSnapshot
    pollingIntervalSeconds, \* the setting quotaLite.pollingIntervalSeconds
    retryTimers,            \* bag of the delays of the pending setTimeout callbacks
    tasks,                  \* bag of the suspended call chains: [pc, tag]
    ev,                     \* the last step taken
    episodeRetries,         \* re-attempts scheduled since the counter was last reset
    undisturbed,            \* no locate succeeded, no manual refresh, no config change
    transportStreak,        \* transport failures since the last successful fetch
    rediscoveries,          \* discoverConnection calls made by those failures
    lost,                   \* the connection was discarded after a transport failure
    track,                  \* which of the history variables is recorded
    input,                  \* the argument of a function applied on its own
    output                  \* its result

vars == <<phase, connection, pollingTimer, intervals, lastSnapshot, connectionRetryCount,
          statusBar, pollingIntervalSeconds, retryTimers, tasks, ev,
          episodeRetries, undisturbed, transportStreak, rediscoveries, lost, track,
          input, output>>

orchestrator == <<connection, pollingTimer, intervals, lastSnapshot, connectionRetryCount,
                  statusBar>>
functions == <<input, output>>
ghosts == <<episodeRetries, undisturbed, transportStreak, rediscoveries, lost>>

(* History variables.  They record what happened and never influence a     *)
(* step; each specification records one family of them and leaves the      *)
(* others at their initial value.                                          *)
\* calls: the timer and network calls the step made, in program order
LogCalls(op, message, calls) ==
    ev' = IF track \in {"events", "render"}
          THEN [op |-> op, message |-> message, calls |-> calls]
          ELSE ev
Log(op, message) == LogCalls(op, message, <<>>)
Record(family, value, old) == IF track = family THEN value ELSE old
Saturate(n) == IF n < MaxStreak THEN n + 1 ELSE n

----------------------------------------------------------------------------
(* StatusBarController *)

showOffline(sb) ==
    [sb EXCEPT !.text = "Quota: Connecting...",
               !.tooltip = <<"connecting to Language Server">>]

showError(sb, message) ==
    [sb EXCEPT !.text = "Quota: Offline", !.tooltip = message]

\* Math.round of num / den, den > 0
MathRound(num, den) == (2 * num + den) \div (2 * den)

\* makeProgressBar: the repeat counts of the filled and of the empty cells
makeProgressBar(percentage) ==
    LET filled == MathRound(percentage.num * 10, percentage.den * 100)
    IN  [filled |-> filled, empty |-> 10 - filled]

\* String.prototype.repeat throws a RangeError on a negative count
RepeatThrows(count) == count < 0
InvalidCountMsg == <<"Invalid count value">>

\* update throws: buildTooltip draws the progress bar of every model
updateThrows(snapshot) ==
    \E i \in DOMAIN snapshot.models :
        LET bar == makeProgressBar(snapshot.models[i].remainingPercentage)
        IN  RepeatThrows(bar.filled) \/ RepeatThrows(bar.empty)

\* update, run to completion
update(sb, snapshot) ==
    IF Len(snapshot.models) = 0
    THEN [text |-> "Quota: No models", tooltip |-> <<"No quota data available">>,
          lastSnapshot |-> snapshot]
    ELSE [text |-> "Quota: summary", tooltip |-> <<"Antigravity Quota Monitor">>,
          lastSnapshot |-> snapshot]

\* update, left when buildTooltip throws: the snapshot and the text are set
updateInterrupted(sb, snapshot) ==
    [sb EXCEPT !.text = "Quota: summary", !.lastSnapshot = snapshot]

NotFoundTooltip == <<"Antigravity not found - is it running?">>
LookingTooltip == <<"Looking for Antigravity...">>
NotConnectedTooltip == <<"Antigravity not connected">>
ReconnectingTooltip == <<"Reconnecting...">>

----------------------------------------------------------------------------
(* Timers *)

Max(a, b) == IF a >= b THEN a ELSE b

\* startPolling: config.get<number>('pollingIntervalSeconds', 60) of a setting
\* that is unset (None) or set
getPollingIntervalSeconds(setting) ==
    IF Defined(setting) THEN setting[1] ELSE DefaultPollingIntervalSeconds

\* startPolling: the period of the new interval timer
intervalMs_unclamped(intervalSec) == intervalSec * 1000
intervalMs(intervalSec) == Max(MinPollingIntervalMs, intervalSec * 1000)

\* clearInterval(pollingTimer) under `if (pollingTimer)`: the live timers left
cleared == IF pollingTimer # NoTimer THEN intervals (-) SetToBag({pollingTimer}) ELSE intervals

\* startPolling: stopPolling(), then setInterval with the configured period
startPolling_noStop(intervalSec) ==
    /\ pollingTimer' = intervalMs(intervalSec)
    /\ intervals' = intervals (+) SetToBag({intervalMs(intervalSec)})
startPolling(intervalSec) ==
    /\ pollingTimer' = intervalMs(intervalSec)
    /\ intervals' = cleared (+) SetToBag({intervalMs(intervalSec)})

\* stopPolling
stopPolling ==
    /\ pollingTimer' = NoTimer
    /\ intervals' = cleared

\* discoverConnection: connectionRetryCount <= MAX_CONNECTION_RETRIES
mayRetry_strict(retryCount) == retryCount < MAX_CONNECTION_RETRIES
mayRetry(retryCount) == retryCount <= MAX_CONNECTION_RETRIES

\* discoverConnection: const delay = CONNECTION_RETRY_DELAY_MS * connectionRetryCount
retryDelay_fixed(retryCount) == CONNECTION_RETRY_DELAY_MS
retryDelay(retryCount) == CONNECTION_RETRY_DELAY_MS * retryCount

\* the delays a re-attempt can be scheduled with
RetryDelays == {retryDelay(k) : k \in 1..MAX_CONNECTION_RETRIES}

----------------------------------------------------------------------------
(* Tasks *)

\* a call chain suspended at an await.  The tag is a history mark: under
\* Spec it marks the chain of a manual refresh issued in Unavailable, under
\* FairSpec one observed chain; otherwise it is FALSE.
Task(pc, tag) == [pc |-> pc, tag |-> tag]
One(x) == SetToBag({x})
InFlight(pc) == {k \in BagToSet(tasks) : k.pc = pc}
Tagged == {k \in BagToSet(tasks) : k.tag}

\* a call chain arrived at the await pc in this step
Entered(pc) ==
    \E tag \in BOOLEAN : CopiesIn(Task(pc, tag), tasks') > CopiesIn(Task(pc, tag), tasks)

AtRest == tasks = EmptyBag
Outstanding == BagCardinality(tasks) + BagCardinality(retryTimers)
\* a trigger can add a call chain
CanStart == Outstanding < MaxOutstanding

\* the snapshots a fetch resolves with: the ones whose tooltip cannot be drawn
\* only in the runs that follow the rendering
Fetchable == IF track = "render" THEN Snapshots ELSE {x \in Snapshots : ~updateThrows(x)}

\* Unavailable: the retry ceiling is exhausted and nothing is pending
Unavailable ==
    /\ phase = "active"
    /\ connection = NoConnection
    /\ connectionRetryCount > MAX_CONNECTION_RETRIES
    /\ retryTimers = EmptyBag
    /\ pollingTimer = NoTimer
    /\ AtRest

\* the tags a chain started by a refresh trigger can carry
RefreshTags(manual) ==
    IF track = "events" THEN {manual /\ Unavailable}
    ELSE IF track = "observe" /\ Tagged = {} THEN BOOLEAN
    ELSE {FALSE}

\* refreshQuota up to its first await: the chain is suspended in
\* findConnection (no connection held) or in fetchQuota
refreshQuotaEntry_noRediscovery(conn) == "fetch"
refreshQuotaEntry(conn) == IF conn = NoConnection THEN "locateR" ELSE "fetch"

\* discoverConnection up to its first await
discoverConnectionEntry == "locateD"

\* the operation a call chain suspended at pc awaits
Awaited(pc) == IF pc = "fetch" THEN "fetchQuota" ELSE "findConnection"

\* discoverConnection, found: startPolling(), then `await refreshQuota()`,
\* which runs up to the await at pc
foundCalls_fetchFirst(pc) == <<Awaited(pc), "setInterval">>
foundCalls(pc) == <<"setInterval", Awaited(pc)>>

\* refreshQuota's catch block: await discoverConnection()
rediscover_skipped(k) == tasks' = tasks (-) One(k)
rediscover(k) == tasks' = (tasks (-) One(k)) (+) One(Task(discoverConnectionEntry, k.tag))

----------------------------------------------------------------------------
InitProgram ==
    /\ phase = "loaded"
    /\ connection = NoConnection
    /\ pollingTimer = NoTimer
    /\ intervals = EmptyBag
    /\ lastSnapshot = NoSnapshot
    /\ connectionRetryCount = 0
    /\ statusBar = [text |-> "", tooltip |-> <<>>, lastSnapshot |-> NoSnapshot]
    /\ pollingIntervalSeconds = DefaultPollingIntervalSeconds
    /\ retryTimers = EmptyBag
    /\ tasks = EmptyBag
    /\ ev = [op |-> "init", message |-> <<>>, calls |-> <<>>]
    /\ episodeRetries = 0
    /\ undisturbed = TRUE
    /\ transportStreak = 0
    /\ rediscoveries = 0
    /\ lost = FALSE

\* no function is applied on its own in the runs of the orchestrator
NoFunction == input = NoInput /\ output = NoOutput

Init == InitProgram /\ NoFunction /\ track = "events"
InitRetries == InitProgram /\ NoFunction /\ track = "retries"
InitStreak == InitProgram /\ NoFunction /\ track = "streak"
InitLost == InitProgram /\ NoFunction /\ track = "lost"
InitObserve == InitProgram /\ NoFunction /\ track = "observe"
InitRender == InitProgram /\ NoFunction /\ track = "render"

\* activate: new StatusBarController, the registrations, then startSystem
activate ==
    /\ phase = "loaded"
    /\ phase' = "active"
    /\ statusBar' = showOffline(statusBar)
    /\ connectionRetryCount' = 0
    /\ tasks' = tasks (+) One(Task(discoverConnectionEntry, FALSE))
    /\ Log("activate", <<>>)
    /\ UNCHANGED functions
    /\ episodeRetries' = Record("retries", 0, episodeRetries)
    /\ UNCHANGED <<connection, pollingTimer, intervals, lastSnapshot, pollingIntervalSeconds,
                   retryTimers, undisturbed, transportStreak, rediscoveries, lost, track>>

\* deactivate
deactivate ==
    /\ phase = "active"
    /\ phase' = "deactivated"
    /\ stopPolling
    /\ Log("deactivate", <<>>)
    /\ UNCHANGED functions
    /\ UNCHANGED <<connection, lastSnapshot, connectionRetryCount, statusBar,
                   pollingIntervalSeconds, retryTimers, tasks, track>>
    /\ UNCHANGED ghosts

\* the command quotaLite.refresh (and the refresh callback of the quick pick)
manualRefresh ==
    /\ phase = "active"
    /\ CanStart
    /\ \E tag \in RefreshTags(TRUE) :
          tasks' = tasks (+) One(Task(refreshQuotaEntry(connection), tag))
    /\ Log("manualRefresh", <<>>)
    /\ UNCHANGED functions
    /\ undisturbed' = Record("retries", FALSE, undisturbed)
    /\ UNCHANGED <<phase, pollingIntervalSeconds, retryTimers, track>>
    /\ UNCHANGED orchestrator
    /\ UNCHANGED <<episodeRetries, transportStreak, rediscoveries, lost>>

\* the setInterval callback of startPolling
pollingTick ==
    /\ intervals # EmptyBag
    /\ CanStart
    /\ \E tag \in RefreshTags(FALSE) :
          tasks' = tasks (+) One(Task(refreshQuotaEntry(connection), tag))
    /\ Log("pollingTick", <<>>)
    /\ UNCHANGED functions
    /\ UNCHANGED <<phase, pollingIntervalSeconds, retryTimers, track>>
    /\ UNCHANGED orchestrator
    /\ UNCHANGED ghosts

\* restartPolling
restartPolling(intervalSec) ==
    IF connection # NoConnection THEN startPolling(intervalSec)
    ELSE UNCHANGED <<pollingTimer, intervals>>

\* onDidChangeConfiguration, for a change of quotaLite.pollingIntervalSeconds
configurationChange(v) ==
    /\ phase = "active"
    /\ pollingIntervalSeconds' = v
    /\ restartPolling(v)
    /\ Log("configurationChange", <<>>)
    /\ UNCHANGED functions
    /\ undisturbed' = Record("retries", FALSE, undisturbed)
    /\ UNCHANGED <<phase, connection, lastSnapshot, connectionRetryCount, statusBar,
                   retryTimers, tasks, track>>
    /\ UNCHANGED <<episodeRetries, transportStreak, rediscoveries, lost>>

\* the setTimeout callback of discoverConnection: () => discoverConnection()
retryTimerFire(delay) ==
    /\ BagIn(delay, retryTimers)
    /\ retryTimers' = retryTimers (-) One(delay)
    /\ tasks' = tasks (+) One(Task(discoverConnectionEntry, FALSE))
    /\ Log("retryTimerFire", <<>>)
    /\ UNCHANGED functions
    /\ UNCHANGED <<phase, pollingIntervalSeconds, track>>
    /\ UNCHANGED orchestrator
    /\ UNCHANGED ghosts

\* discoverConnection after `connection = await findConnection()`, found:
\* reset the counter, startPolling(), then refreshQuota() up to its await
discoverConnectionFound(k, result) ==
    /\ BagIn(k, tasks) /\ k.pc = "locateD"
    /\ connection' = result
    /\ connectionRetryCount' = 0
    /\ startPolling(pollingIntervalSeconds)
    /\ tasks' = (tasks (-) One(k)) (+) One(Task(refreshQuotaEntry(result), k.tag))
    /\ LogCalls("discoverConnectionFound", <<>>, foundCalls(refreshQuotaEntry(result)))
    /\ UNCHANGED functions
    /\ UNCHANGED functions
    /\ episodeRetries' = Record("retries", 0, episodeRetries)
    /\ undisturbed' = Record("retries", FALSE, undisturbed)
    /\ lost' = Record("lost", FALSE, lost)
    /\ UNCHANGED <<phase, lastSnapshot, statusBar, pollingIntervalSeconds, retryTimers,
                   transportStreak, rediscoveries, track>>

\* discoverConnection after `connection = await findConnection()`, not found
discoverConnectionNotFound(k) ==
    /\ BagIn(k, tasks) /\ k.pc = "locateD"
    /\ connectionRetryCount < MaxRetryCount
    /\ connection' = NoConnection
    /\ connectionRetryCount' = connectionRetryCount + 1
    /\ IF mayRetry(connectionRetryCount')
       THEN /\ statusBar' = showError(statusBar, LookingTooltip)
            /\ retryTimers' = retryTimers (+) One(retryDelay(connectionRetryCount'))
            /\ episodeRetries' = Record("retries", episodeRetries + 1, episodeRetries)
       ELSE /\ statusBar' = showError(statusBar, NotFoundTooltip)
            /\ UNCHANGED <<retryTimers, episodeRetries>>
    /\ tasks' = tasks (-) One(k)
    /\ Log("discoverConnectionNotFound", <<>>)
    /\ UNCHANGED functions
    /\ UNCHANGED <<phase, pollingTimer, intervals, lastSnapshot, pollingIntervalSeconds,
                   undisturbed, transportStreak, rediscoveries, lost, track>>

\* refreshQuota after `connection = await findConnection()`, found
refreshQuotaReconnected(k, result) ==
    /\ BagIn(k, tasks) /\ k.pc = "locateR"
    /\ connection' = result
    /\ tasks' = (tasks (-) One(k)) (+) One(Task("fetch", k.tag))
    /\ Log("refreshQuotaReconnected", <<>>)
    /\ UNCHANGED functions
    /\ undisturbed' = Record("retries", FALSE, undisturbed)
    /\ lost' = Record("lost", FALSE, lost)
    /\ UNCHANGED <<phase, pollingTimer, intervals, lastSnapshot, connectionRetryCount, statusBar,
                   pollingIntervalSeconds, retryTimers, episodeRetries,
                   transportStreak, rediscoveries, track>>

\* refreshQuota after `connection = await findConnection()`, not found
refreshQuotaNotConnected(k) ==
    /\ BagIn(k, tasks) /\ k.pc = "locateR"
    /\ connection' = NoConnection
    /\ statusBar' = showError(statusBar, NotConnectedTooltip)
    /\ tasks' = tasks (-) One(k)
    /\ Log("refreshQuotaNotConnected", <<>>)
    /\ UNCHANGED functions
    /\ UNCHANGED <<phase, pollingTimer, intervals, lastSnapshot, connectionRetryCount,
                   pollingIntervalSeconds, retryTimers, track>>
    /\ UNCHANGED ghosts

\* refreshQuota after `lastSnapshot = await fetchQuota(connection)` resolved;
\* an exception of statusBar.update is caught by the same try block, and its
\* message matches neither needle of the catch block
refreshQuotaFetched(k, snapshot) ==
    /\ BagIn(k, tasks) /\ k.pc = "fetch"
    /\ snapshot \in Fetchable
    /\ lastSnapshot' = snapshot
    /\ statusBar' = IF updateThrows(snapshot)
                    THEN showError(updateInterrupted(statusBar, snapshot), InvalidCountMsg)
                    ELSE update(statusBar, snapshot)
    /\ tasks' = tasks (-) One(k)
    /\ Log("refreshQuotaFetched", <<>>)
    /\ UNCHANGED functions
    /\ transportStreak' = Record("streak", 0, transportStreak)
    /\ rediscoveries' = Record("streak", 0, rediscoveries)
    /\ UNCHANGED <<phase, connection, pollingTimer, intervals, connectionRetryCount,
                   pollingIntervalSeconds, retryTimers, episodeRetries, undisturbed,
                   lost, track>>

\* refreshQuota's catch block, connection failure: rediscover
refreshQuotaConnectionLost(k, message) ==
    /\ BagIn(k, tasks) /\ k.pc = "fetch"
    /\ IsConnectionFailure(message)
    /\ connection' = NoConnection
    /\ statusBar' = showError(statusBar, ReconnectingTooltip)
    /\ rediscover(k)
    /\ Log("refreshQuotaConnectionLost", message)
    /\ UNCHANGED functions
    /\ transportStreak' = Record("streak", Saturate(transportStreak), transportStreak)
    /\ rediscoveries' = Record("streak",
                            IF Entered(discoverConnectionEntry)
                            THEN Saturate(rediscoveries) ELSE rediscoveries,
                            rediscoveries)
    /\ lost' = Record("lost", TRUE, lost)
    /\ UNCHANGED <<phase, pollingTimer, intervals, lastSnapshot, connectionRetryCount,
                   pollingIntervalSeconds, retryTimers, episodeRetries, undisturbed, track>>

\* refreshQuota's catch block, any other failure: show the message
refreshQuotaFailed(k, message) ==
    /\ BagIn(k, tasks) /\ k.pc = "fetch"
    /\ ~IsConnectionFailure(message)
    /\ statusBar' = showError(statusBar, message)
    /\ tasks' = tasks (-) One(k)
    /\ Log("refreshQuotaFailed", message)
    /\ UNCHANGED functions
    /\ UNCHANGED <<phase, connection, pollingTimer, intervals, lastSnapshot, connectionRetryCount,
                   pollingIntervalSeconds, retryTimers, track>>
    /\ UNCHANGED ghosts

TaskKinds == {Task(pc, tag) : pc \in {"locateD", "locateR", "fetch"}, tag \in BOOLEAN}

\* the completion of the await of call chain k, for every outcome of the
\* awaited operation
taskStep(k) ==
    \/ \E result \in ConnectionInfos : discoverConnectionFound(k, result)
    \/ discoverConnectionNotFound(k)
    \/ \E result \in ConnectionInfos : refreshQuotaReconnected(k, result)
    \/ refreshQuotaNotConnected(k)
    \/ \E snapshot \in Snapshots : refreshQuotaFetched(k, snapshot)
    \/ \E message \in ErrorMessages : refreshQuotaConnectionLost(k, message)
    \/ \E message \in ErrorMessages : refreshQuotaFailed(k, message)

Next ==
    \/ activate
    \/ deactivate
    \/ manualRefresh
    \/ pollingTick
    \/ \E v \in ConfigValues : configurationChange(v)
    \/ \E delay \in RetryDelays : retryTimerFire(delay)
    \/ \E k \in TaskKinds, result \in ConnectionInfos : discoverConnectionFound(k, result)
    \/ \E k \in TaskKinds : discoverConnectionNotFound(k)
    \/ \E k \in TaskKinds, result \in ConnectionInfos : refreshQuotaReconnected(k, result)
    \/ \E k \in TaskKinds : refreshQuotaNotConnected(k)
    \/ \E k \in TaskKinds, snapshot \in Snapshots : refreshQuotaFetched(k, snapshot)
    \/ \E k \in TaskKinds, message \in ErrorMessages : refreshQuotaConnectionLost(k, message)
    \/ \E k \in TaskKinds, message \in ErrorMessages : refreshQuotaFailed(k, message)

Spec == Init /\ [][Next]_vars
SpecRetries == InitRetries /\ [][Next]_vars
SpecStreak == InitStreak /\ [][Next]_vars
SpecLost == InitLost /\ [][Next]_vars
SpecRender == InitRender /\ [][Next]_vars

\* every awaited operation completes: the locator's subprocesses and the HTTP
\* request are bounded by timeouts
FairSpec ==
    /\ InitObserve /\ [][Next]_vars
    /\ \A k \in TaskKinds : WF_vars(taskStep(k))

----------------------------------------------------------------------------
(* Process Locator: parseCommandLine *)

\* a command line is a sequence of arguments: a flag, what separates it from
\* its value (" ", "=", or "" when nothing follows) and the characters of
\* its value
Arg(flag, sep, value) == [flag |-> flag, sep |-> sep, value |-> value]

PortFlag == "--extension_server_port"
TokenFlag == "--csrf_token"
MarkerFlag == "--app_data_dir"

Digits == {"0", "1", "2", "3", "4", "5", "6", "7", "8", "9"}
DigitValue(c) ==
    CASE c = "0" -> 0 [] c = "1" -> 1 [] c = "2" -> 2 [] c = "3" -> 3 [] c = "4" -> 4
      [] c = "5" -> 5 [] c = "6" -> 6 [] c = "7" -> 7 [] c = "8" -> 8 [] c = "9" -> 9
\* [a-f0-9-] under the i flag
TokenChars == Digits \cup {"a", "b", "c", "d", "e", "f", "A", "B", "C", "D", "E", "F", "-"}
\* \w
WordChars ==
    Digits \cup {"_", "a", "b", "c", "d", "e", "f", "A", "B", "C", "D", "E", "F",
                 "g", "h", "i", "n", "o", "r", "t", "v", "x", "y", "z"}

\* the i flag of a pattern, on the characters and flags the inputs are made of
LowerChar(c) ==
    CASE c = "A" -> "a" [] c = "B" -> "b" [] c = "C" -> "c" [] c = "D" -> "d"
      [] c = "E" -> "e" [] c = "F" -> "f" [] OTHER -> c
LowerFlag(flag) ==
    CASE flag = "--CSRF_TOKEN" -> "--csrf_token"
      [] flag = "--APP_DATA_DIR" -> "--app_data_dir"
      [] OTHER -> flag

\* the longest prefix of characters of a class: what (\d+) or ([a-f0-9-]+) captures
RECURSIVE Leading(_, _)
Leading(chars, class) ==
    IF chars = <<>> \/ Head(chars) \notin class THEN <<>>
    ELSE <<Head(chars)>> \o Leading(Tail(chars), class)

\* parseInt(digits, 10)
RECURSIVE parseInt(_)
parseInt(digits) ==
    IF digits = <<>> THEN 0
    ELSE 10 * parseInt(SubSeq(digits, 1, Len(digits) - 1)) + DigitValue(digits[Len(digits)])

\* String.prototype.includes of a flag
includesFlag(cmdLine, flag) == \E i \in DOMAIN cmdLine : cmdLine[i].flag = flag

Antigravity == <<"a", "n", "t", "i", "g", "r", "a", "v", "i", "t", "y">>

\* /--app_data_dir\s+antigravity\b/i.test(cmdLine)
hasMarker_skipped(cmdLine) == TRUE
hasMarker(cmdLine) ==
    \E i \in DOMAIN cmdLine :
        LET value == cmdLine[i].value
        IN  /\ LowerFlag(cmdLine[i].flag) = MarkerFlag
            /\ cmdLine[i].sep = " "
            /\ Len(value) >= Len(Antigravity)
            /\ \A j \in DOMAIN Antigravity : LowerChar(value[j]) = Antigravity[j]
            /\ Len(value) > Len(Antigravity) => value[Len(Antigravity) + 1] \notin WordChars

\* cmdLine.match of flag[=\s]+(class+): the capture of the first match, or None
capture(cmdLine, flag, class, ignoreCase) ==
    LET matches(i) ==
            /\ (IF ignoreCase THEN LowerFlag(cmdLine[i].flag) ELSE cmdLine[i].flag) = flag
            /\ cmdLine[i].sep \in {" ", "="}
            /\ Leading(cmdLine[i].value, class) # <<>>
        found == {i \in DOMAIN cmdLine : matches(i)}
    IN  IF found = {} THEN None
        ELSE Some(Leading(cmdLine[CHOOSE i \in found : \A j \in found : i <= j].value, class))

\* parseCommandLine: extensionPort <= 0 || extensionPort > 65535 rejects
portAccepted_noCeiling(extensionPort) == ~(extensionPort <= 0)
portAccepted(extensionPort) == ~(extensionPort <= 0 \/ extensionPort > 65535)

\* the port layout: the HTTP API listens on extension_server_port + 2
apiPort(extensionPort) == extensionPort + 2

\* parseCommandLine: null (NoConnection) or a ConnectionInfo
parseCommandLine(cmdLine) ==
    LET portMatch == capture(cmdLine, PortFlag, Digits, FALSE)
        tokenMatch == capture(cmdLine, TokenFlag, TokenChars, TRUE)
    IN  IF ~includesFlag(cmdLine, PortFlag) \/ ~includesFlag(cmdLine, TokenFlag)
        THEN NoConnection
        ELSE IF ~hasMarker(cmdLine) THEN NoConnection
        ELSE IF ~Defined(portMatch) \/ ~Defined(tokenMatch) THEN NoConnection
        ELSE IF ~portAccepted(parseInt(portMatch[1])) THEN NoConnection
        ELSE [port |-> apiPort(parseInt(portMatch[1])), csrfToken |-> tokenMatch[1]]

\* an exception on its way to the nearest catch
Thrown == [thrown |-> TRUE]

\* promisify(execFile): the promise of a subprocess rejects on a timeout, a
\* non-zero exit or a spawn error and resolves with the standard output
SubprocessFailures == {"timeout", "non-zero exit", "spawn error"}
execFileAsync(outcome, stdout) ==
    IF outcome = "ok" THEN [rejected |-> FALSE, stdout |-> stdout]
    ELSE [rejected |-> TRUE, stdout |-> <<>>]

\* findConnectionUnix, the body of the loop for one pid: ps, then
\* parseCommandLine; the catch of the loop swallows a failure of ps
candidate_uncaught(process) ==
    LET ps == execFileAsync(process.detail, process.cmdLine)
    IN  IF ps.rejected THEN Thrown ELSE parseCommandLine(ps.stdout)
candidate(process) ==
    LET ps == execFileAsync(process.detail, process.cmdLine)
    IN  IF ps.rejected THEN NoConnection ELSE parseCommandLine(ps.stdout)

\* findConnectionUnix, the loop over the pids: the first result that is not null
RECURSIVE firstResult(_)
firstResult(processes) ==
    IF processes = <<>> THEN NoConnection
    ELSE LET result == candidate(Head(processes))
         IN  IF result = Thrown THEN Thrown
             ELSE IF result # NoConnection THEN result
             ELSE firstResult(Tail(processes))

\* findConnectionUnix: pgrep lists the processes; its failure, and whatever
\* the loop throws, end in the outer catch and null
findConnectionUnix(search, processes) ==
    LET pgrep == execFileAsync(search, processes)
        pids == pgrep.stdout
        body == IF pgrep.rejected THEN Thrown
                ELSE IF Len(pids) = 0 THEN NoConnection
                ELSE firstResult(pids)
    IN  IF body = Thrown THEN NoConnection ELSE body

\* the standard output of the PowerShell query: the command lines of all
\* matching processes, one after the other
RECURSIVE commandLines(_)
commandLines(processes) ==
    IF processes = <<>> THEN <<>>
    ELSE Head(processes).cmdLine \o commandLines(Tail(processes))

\* findConnectionWindows: one query, one parseCommandLine of all its output
findConnectionWindows(search, processes) ==
    LET powershell == execFileAsync(search, commandLines(processes))
    IN  IF powershell.rejected THEN NoConnection ELSE parseCommandLine(powershell.stdout)

\* findConnection
findConnection(platform, search, processes) ==
    LET result == IF platform = "win32" THEN findConnectionWindows(search, processes)
                  ELSE findConnectionUnix(search, processes)
    IN  IF result = Thrown THEN NoConnection ELSE result

----------------------------------------------------------------------------
(* Functions applied on their own *)

\* the values of the setting startPolling is applied to: unset, negative,
\* zero, below, at and above the floor
SettingInputs == {None} \cup {Some(v) : v \in {-60, -1, 0, 1, 5, 9, 10, 11, 60, 3600}}

\* raw payloads parseResponse is applied to
RawModel(label, model, limits, quotaInfo) ==
    [label |-> label, model |-> model, limits |-> limits, quotaInfo |-> quotaInfo]
Limits(remaining, total) == [remaining |-> remaining, total |-> total, expiresAt |-> None]
QuotaInfo(remainingFraction) == [remainingFraction |-> remainingFraction, resetTime |-> None]

\* remaining / total pairs: absent, negative, within and beyond the total;
\* total absent, negative, zero, positive
RemainingInputs == {None, Some(-5), Some(30), Some(150)}
TotalInputs == {None, Some(-100), Some(0), Some(100)}
LimitsInputs ==
    {None} \cup {Some(Limits(r, t)) : r \in RemainingInputs, t \in TotalInputs}
\* fractions: absent, negative, 0, 1/2, 1, 3/2
QuotaInfoInputs ==
    {None, Some(QuotaInfo(None))}
    \cup {Some(QuotaInfo(Some(f))) :
            f \in {Rat(-1, 2), Rat(0, 1), Rat(1, 2), Rat(1, 1), Rat(3, 2)}}

ProHigh == Text(<<"Gemini", "3", "Pro">>, "(High)")
RawModels ==
    {RawModel(Some(ProHigh), None, l, q) : l \in LimitsInputs, q \in QuotaInfoInputs}
    \cup {RawModel(None, None, None, Some(QuotaInfo(Some(Rat(1, 2))))),
          RawModel(Some(EmptyText), Some(Text(<<"gemini-3-pro">>, "")), None,
                   Some(QuotaInfo(Some(Rat(3, 2)))))}
Sonnet == Text(<<"Claude", "Sonnet", "4">>, "")
LegacyModels ==
    {RawModel(Some(Sonnet), None, Some(Limits(Some(r), Some(100))), None) :
        r \in {-5, 30, 150}}
\* lists of two entries: one with both shapes (1/2 and 30 of 100), one
\* with the remaining/total shape only, one without label and model
BothShapes ==
    RawModel(Some(ProHigh), None, Some(Limits(Some(30), Some(100))),
             Some(QuotaInfo(Some(Rat(1, 2)))))
LegacyOnly == RawModel(Some(Sonnet), None, Some(Limits(Some(30), Some(100))), None)
Unlabelled == RawModel(None, None, None, Some(QuotaInfo(Some(Rat(1, 2)))))
MixedLists ==
    {<<BothShapes, LegacyOnly>>, <<LegacyOnly, BothShapes>>,
     <<Unlabelled, BothShapes>>, <<Unlabelled, LegacyOnly>>}

PayloadInputs ==
    {Payload(chat, credits) :
        chat \in {None, Some(<<>>)} \cup {Some(<<m>>) : m \in RawModels}
                 \cup {Some(l) : l \in MixedLists},
        credits \in {None}
            \cup {Some(PromptCredits(r, t, ms)) :
                    r \in RemainingInputs, t \in TotalInputs,
                    ms \in {None} \cup {Some(<<m>>) : m \in LegacyModels}}}

\* command lines parseCommandLine is applied to: the port arguments, the
\* token arguments and the marker arguments of each, any of them missing
PortValues ==
    {<<"0">>, <<"1">>, <<"1", "0", "0", "0">>, <<"6", "5", "5", "3", "3">>,
     <<"6", "5", "5", "3", "4">>, <<"6", "5", "5", "3", "5">>,
     <<"6", "5", "5", "3", "6">>, <<"7", "0", "0", "0", "0">>,
     <<"x", "y", "z">>, <<"8", "0", "x">>}
PortArgs ==
    {<<>>, <<Arg(PortFlag, "", <<>>)>>, <<Arg(PortFlag, "=", <<"1", "0", "0", "0">>)>>,
     <<Arg(PortFlag, " ", <<"0">>), Arg(PortFlag, " ", <<"1", "0", "0", "0">>)>>}
    \cup {<<Arg(PortFlag, " ", v)>> : v \in PortValues}
TokenArgs ==
    {<<>>,
     <<Arg(TokenFlag, " ", <<"a", "b", "1", "2">>)>>,
     <<Arg(TokenFlag, "=", <<"A", "B", "-", "1", "2">>)>>,
     <<Arg(TokenFlag, " ", <<"x", "y", "z">>)>>,
     <<Arg(TokenFlag, " ", <<"a", "b", "1", "2", "x", "y", "z">>)>>,
     <<Arg("--CSRF_TOKEN", " ", <<"a", "b", "1", "2">>)>>}
MarkerArgs ==
    {<<>>,
     <<Arg(MarkerFlag, " ", Antigravity)>>,
     <<Arg(MarkerFlag, "=", Antigravity)>>,
     <<Arg("--APP_DATA_DIR", " ", <<"A">> \o Tail(Antigravity))>>,
     <<Arg(MarkerFlag, " ", Antigravity \o <<"2">>)>>,
     <<Arg(MarkerFlag, " ", Antigravity \o <<"/", "x">>)>>,
     <<Arg(MarkerFlag, " ", <<"o", "t", "h", "e", "r">>)>>}
CommandLineInputs ==
    {p \o t \o m : p \in PortArgs, t \in TokenArgs, m \in MarkerArgs}

\* the processes findConnection is applied to: the command line of each and
\* the outcome of the ps call that asks for it
ServerLine(port, token, dir) ==
    <<Arg(PortFlag, " ", port), Arg(TokenFlag, " ", token), Arg(MarkerFlag, " ", dir)>>
\* two language servers of the application, a language server of another
\* application and a process of the application without port and token
OwnLine == ServerLine(<<"1", "0", "0", "0">>, <<"a", "b", "1", "2">>, Antigravity)
OtherOwnLine == ServerLine(<<"3", "0", "0", "0">>, <<"e", "f", "5", "6">>, Antigravity)
ForeignLine ==
    ServerLine(<<"5", "0", "0", "0">>, <<"c", "d", "3", "4">>, <<"o", "t", "h", "e", "r">>)
BareLine == <<Arg(MarkerFlag, " ", Antigravity)>>
ProcessLines == {OwnLine, OtherOwnLine, ForeignLine, BareLine}
Process(detail, cmdLine) == [detail |-> detail, cmdLine |-> cmdLine]
Processes ==
    {Process(d, c) : d \in {"ok", "timeout", "non-zero exit"}, c \in ProcessLines}
RECURSIVE ProcessLists(_)
ProcessLists(n) ==
    IF n = 0 THEN {<<>>}
    ELSE ProcessLists(n - 1)
         \cup {Append(l, p) : l \in {x \in ProcessLists(n - 1) : Len(x) = n - 1},
                              p \in Processes}
LocatorInputs ==
    {[fn |-> "findConnection", platform |-> pf, search |-> s, processes |-> ps] :
        pf \in {"win32", "posix"}, s \in {"ok"} \cup SubprocessFailures,
        ps \in ProcessLists(MaxCandidates)}

\* the lists groupModels is applied to: up to MaxModels entries with labels
\* of three families, two of them of the same family, told apart by their
\* model ids
ProLow == Text(<<"Gemini", "3", "Pro">>, "(Low)")
Custom == Text(<<"Custom", "Model">>, "(Beta)")
GroupLabels == {ProHigh, ProLow, Sonnet, Custom}
ModelIds == <<"m1", "m2", "m3", "m4", "m5", "m6", "m7", "m8">>
RECURSIVE LabelLists(_)
LabelLists(n) ==
    IF n = 0 THEN {<<>>}
    ELSE LabelLists(n - 1)
         \cup {Append(l, x) : l \in {y \in LabelLists(n - 1) : Len(y) = n - 1},
                              x \in GroupLabels}
ModelList(labels) ==
    [i \in DOMAIN labels |->
        [label |-> labels[i], modelId |-> Text(<<ModelIds[i]>>, ""),
         remainingPercentage |-> Rat(50, 1), resetTime |-> None]]
GroupInputs ==
    {[fn |-> "groupModels", models |-> ModelList(l)] : l \in LabelLists(MaxModels)}

FunctionInputs ==
    {[fn |-> "startPolling", setting |-> x] : x \in SettingInputs}
    \cup {[fn |-> "parseResponse", raw |-> x] : x \in PayloadInputs}
    \cup {[fn |-> "parseCommandLine", cmdLine |-> x] : x \in CommandLineInputs}
    \cup LocatorInputs
    \cup GroupInputs

InitFunctions ==
    /\ InitProgram
    /\ track = "functions"
    /\ input \in FunctionInputs
    /\ output = NoOutput

Return(value) ==
    /\ ~output.done
    /\ output' = [done |-> TRUE, value |-> value]
    /\ UNCHANGED <<phase, retryTimers, tasks, pollingIntervalSeconds, ev, track, input>>
    /\ UNCHANGED orchestrator
    /\ UNCHANGED ghosts

\* startPolling: the period it passes to setInterval
applyStartPolling ==
    /\ input.fn = "startPolling"
    /\ Return(intervalMs(getPollingIntervalSeconds(input.setting)))

\* fetchQuota: the snapshot parseResponse makes of the payload
applyParseResponse ==
    /\ input.fn = "parseResponse"
    /\ Return(parseResponse(input.raw))

\* findConnection: what parseCommandLine makes of a command line
applyParseCommandLine ==
    /\ input.fn = "parseCommandLine"
    /\ Return(parseCommandLine(input.cmdLine))

\* findConnection: what it returns on a platform for the outcomes of its
\* subprocesses
applyFindConnection ==
    /\ input.fn = "findConnection"
    /\ Return(findConnection(input.platform, input.search, input.processes))

\* parseResponse: the groups groupModels makes of a list of models
applyGroupModels ==
    /\ input.fn = "groupModels"
    /\ Return(groupModels(input.models))

NextFunctions ==
    \/ applyStartPolling
    \/ applyParseResponse
    \/ applyParseCommandLine
    \/ applyFindConnection
    \/ applyGroupModels

SpecFunctions == InitFunctions /\ [][NextFunctions]_vars

TypeOK ==
    /\ phase \in {"loaded", "active", "deactivated"}
    /\ connection \in {NoConnection} \cup ConnectionInfos
    /\ connectionRetryCount \in 0..MaxRetryCount
    /\ lastSnapshot \in Snapshots \cup {NoSnapshot}
    /\ BagToSet(tasks) \subseteq TaskKinds
    /\ BagToSet(retryTimers) \subseteq RetryDelays
    /\ pollingTimer \in {NoTimer} \cup {intervalMs(v) : v \in ConfigValues}
    /\ intervals = IF pollingTimer = NoTimer THEN EmptyBag ELSE SetToBag({pollingTimer})

----------------------------------------------------------------------------
(* Claims *)

\* C1: after deactivate() no scheduled discovery re-attempt fires: deactivation
\* cancels every pending re-attempt scheduled by a failed discovery, and no
\* re-attempt callback runs (and invokes the locator) once deactivated.
C1_NoRetryFiresAfterDeactivate ==
    [][/\ (phase = "active" /\ phase' = "deactivated") => retryTimers' = EmptyBag
       /\ phase = "deactivated" => ev'.op # "retryTimerFire"]_vars

\* C2: after deactivate() no further orchestrator transition occurs: the
\* periodic timer stays absent and the connection, the retry counter, the
\* cached snapshot and the status indication no longer change, also when a
\* locate or a fetch that was in flight completes afterwards.
C2_NoTransitionAfterDeactivate ==
    [][phase = "deactivated" =>
          /\ pollingTimer' = NoTimer
          /\ UNCHANGED <<connection, connectionRetryCount, lastSnapshot, statusBar>>]_vars

\* C3: from activation, while the locator returns absent on every attempt and
\* there is no manual refresh and no configuration change, exactly
\* MAX_CONNECTION_RETRIES re-attempts are scheduled, one per failed attempt;
\* the orchestrator comes to rest only in Unavailable, where no periodic timer
\* and no re-attempt is pending and the "not found" indication is shown.
C3_RetriesThenUnavailable ==
    (undisturbed /\ phase # "loaded") =>
        /\ episodeRetries <= 5
        /\ connectionRetryCount <= 5 => episodeRetries = connectionRetryCount
        /\ pollingTimer = NoTimer
        /\ BagCardinality(retryTimers) + BagCardinality(tasks) <= 1
        /\ connectionRetryCount > 5 =>
              /\ episodeRetries = 5
              /\ connectionRetryCount = 6
              /\ retryTimers = EmptyBag
              /\ AtRest
              /\ statusBar.tooltip = NotFoundTooltip
        /\ (AtRest /\ retryTimers = EmptyBag) => connectionRetryCount > 5

\* C3 witness: Unavailable reached after five re-attempts that all failed
C3_Witness ==
    /\ undisturbed
    /\ phase = "active"
    /\ episodeRetries = 5
    /\ connectionRetryCount = 6
    /\ retryTimers = EmptyBag
    /\ AtRest

\* C4: every discovery re-attempt is scheduled with delay
\* 10 s x (retry counter after its increment): the counter only changes by a
\* reset to 0 or by +1, each increment up to the ceiling schedules exactly one
\* re-attempt delayed 10 x counter seconds, and nothing else schedules one; so
\* from counter 0 the delays are 10, 20, 30, 40, 50 s.
C4_LinearBackoff ==
    [][/\ connectionRetryCount' # connectionRetryCount =>
            \/ connectionRetryCount' = 0
            \/ /\ connectionRetryCount' = connectionRetryCount + 1
               /\ connectionRetryCount' <= 5 =>
                    retryTimers' = retryTimers (+)
                        SetToBag({1000 * (10 * connectionRetryCount')})
               /\ connectionRetryCount' > 5 => retryTimers' = retryTimers
       /\ BagCardinality(retryTimers') > BagCardinality(retryTimers) =>
            connectionRetryCount' = connectionRetryCount + 1
       /\ \A d \in BagToSet(retryTimers') : d \in {10000, 20000, 30000, 40000, 50000}
      ]_vars

\* C4 witness: the fifth re-attempt is pending, delayed 50 s
C4_Witness ==
    /\ connectionRetryCount = 5
    /\ BagIn(50000, retryTimers)
    /\ ev.op = "discoverConnectionNotFound"

\* the steps that complete a fetch with a rejection
FetchRejected(e) == e.op \in {"refreshQuotaConnectionLost", "refreshQuotaFailed"}

\* C5: when a fetch fails with a transport failure (connection refused or
\* timeout) the orchestrator discards the connection, shows "Reconnecting..."
\* and invokes the locator in the same step, before any timer tick: the
\* failing call chain is suspended in discoverConnection's locate.
C5_TransportFailureRediscovers ==
    [][(FetchRejected(ev') /\ ev'.message \in TransportMessages) =>
          /\ ev'.op = "refreshQuotaConnectionLost"
          /\ connection' = NoConnection
          /\ statusBar'.tooltip = ReconnectingTooltip
          /\ \E k \in InFlight("fetch") :
                tasks' = (tasks (-) One(k)) (+) One(Task("locateD", k.tag))
          /\ UNCHANGED <<pollingTimer, retryTimers, connectionRetryCount>>]_vars

\* C5 witness: a request that timed out has just been handled
C5_Witness ==
    /\ ev.op = "refreshQuotaConnectionLost"
    /\ ev.message = TimedOutMsg
    /\ InFlight("locateD") # {}
    /\ connection = NoConnection

\* C6: when a fetch fails with a malformed response (empty body, invalid JSON)
\* the orchestrator shows the error message and leaves the connection, the
\* retry counter, the periodic timer, the pending re-attempts and the cached
\* snapshot unchanged; the locator is not invoked: the call chain ends and no
\* other one moves.
C6_MalformedKeepsConnection ==
    [][(FetchRejected(ev') /\ ev'.message \in MalformedMessages) =>
          /\ ev'.op = "refreshQuotaFailed"
          /\ statusBar'.tooltip = ev'.message
          /\ UNCHANGED <<connection, connectionRetryCount, pollingTimer,
                         lastSnapshot, retryTimers>>
          /\ \E k \in InFlight("fetch") : tasks' = tasks (-) One(k)]_vars

\* C6 witness: an empty body was received while a connection is held
C6_Witness ==
    /\ ev.op = "refreshQuotaFailed"
    /\ ev.message = EmptyResponseMsg
    /\ connection # NoConnection
    /\ statusBar.tooltip = EmptyResponseMsg

C8_TriggerHandlingTerminates ==
    (Tagged # {}) ~> (Tagged = {})

\* C9: auto-reconnect without manual refresh.  Only a periodic timer tick, a
\* pending re-attempt or a call chain still in flight can invoke the locator
\* without a manual refresh, so whenever the active orchestrator has lost its
\* connection by a transport failure and is at rest with no re-attempt
\* pending, the periodic timer is active (also after the retry ceiling was
\* exhausted).
C9_AutoReconnect ==
    (phase = "active" /\ lost /\ connection = NoConnection
       /\ AtRest /\ retryTimers = EmptyBag)
        => pollingTimer # NoTimer

\* C10, as claimed: when the locate of a manual refresh issued in Unavailable
\* fails, the orchestrator retries discovery with backoff again, so a
\* re-attempt is pending afterwards.
C10_ManualRefreshRetriesWithBackoff ==
    [][(ev'.op = "refreshQuotaNotConnected" /\ Tagged # {} /\ Tagged' = {})
          => retryTimers' # EmptyBag]_vars

\* C10, amended: in Unavailable a manual refresh is accepted and invokes the
\* locator; when that locate fails the "not connected" indication is shown and
\* the retry counter, the pending re-attempts and the periodic timer are
\* unchanged (no backoff retry is started); when it succeeds the connection is
\* held and the same call chain performs a fetch.
C10_ManualRefreshInUnavailable ==
    [][/\ Unavailable => ENABLED manualRefresh
       /\ (Unavailable /\ ev'.op = "manualRefresh") =>
             /\ tasks' = One(Task("locateR", TRUE))
             /\ UNCHANGED <<connection, connectionRetryCount, retryTimers, pollingTimer>>
       /\ ev'.op = "refreshQuotaNotConnected" =>
             /\ \E k \in InFlight("locateR") : tasks' = tasks (-) One(k)
             /\ connection' = NoConnection
             /\ statusBar'.tooltip = NotConnectedTooltip
             /\ UNCHANGED <<connectionRetryCount, retryTimers, pollingTimer>>
       /\ ev'.op = "refreshQuotaReconnected" =>
             /\ \E k \in InFlight("locateR") :
                   tasks' = (tasks (-) One(k)) (+) One(Task("fetch", k.tag))
             /\ connection' # NoConnection
             /\ UNCHANGED <<connectionRetryCount, retryTimers, pollingTimer>>
      ]_vars

\* C10 witness: the locate of a manual refresh issued in Unavailable succeeded
\* and its call chain is fetching
C10_Witness ==
    /\ ev.op = "refreshQuotaReconnected"
    /\ \E k \in Tagged : k.pc = "fetch"
    /\ connection # NoConnection
    /\ connectionRetryCount > MAX_CONNECTION_RETRIES

\* the first locate of the activation has just succeeded
FirstLocateSucceeded == ev.op = "activate" /\ ev'.op = "discoverConnectionFound"

\* C11, as claimed: when the first locate after activation succeeds the
\* orchestrator holds the connection with the retry counter at 0, one fetch
\* is in flight, exactly one periodic timer is live, and the fetch was
\* triggered before the periodic timer was scheduled.
C11_FetchThenSchedule ==
    [][FirstLocateSucceeded =>
          /\ connection' # NoConnection
          /\ connectionRetryCount' = 0
          /\ tasks' = One(Task("fetch", FALSE))
          /\ BagCardinality(intervals') = 1
          /\ ev'.calls = <<"fetchQuota", "setInterval">>]_vars

\* C11, amended: when the first locate after activation succeeds the
\* orchestrator holds the connection with the retry counter at 0, schedules
\* the periodic timer with the configured period and then, in the same
\* step, issues exactly one immediate fetch; exactly one periodic timer is
\* live afterwards.
C11_ScheduleThenFetch ==
    [][FirstLocateSucceeded =>
          /\ connection' # NoConnection
          /\ connectionRetryCount' = 0
          /\ tasks' = One(Task("fetch", FALSE))
          /\ intervals' = One(intervalMs(pollingIntervalSeconds))
          /\ pollingTimer' = intervalMs(pollingIntervalSeconds)
          /\ retryTimers' = EmptyBag
          /\ ev'.calls = <<"setInterval", "fetchQuota">>]_vars

\* C11 witness: the first locate succeeded, no error was ever shown, the
\* immediate fetch is in flight and the periodic timer is live
C11_Witness ==
    /\ ev.op = "discoverConnectionFound"
    /\ statusBar.text = "Quota: Connecting..."
    /\ connectionRetryCount = 0
    /\ tasks = One(Task("fetch", FALSE))
    /\ BagCardinality(intervals) = 1

\* C12: a scheduled or manual refresh issued while no connection is held
\* invokes the locator first and issues no fetch before it answers; when the
\* locator returns absent the offline indication "not connected" is shown, the
\* call chain ends without a fetch, and the retry counter, the pending
\* re-attempts and the periodic timer are unchanged.
C12_RefreshWithoutConnection ==
    [][/\ (ev'.op \in {"manualRefresh", "pollingTick"} /\ connection = NoConnection) =>
             /\ Entered("locateR")
             /\ ~Entered("fetch")
             /\ BagCardinality(tasks') = BagCardinality(tasks) + 1
       /\ ev'.op = "refreshQuotaNotConnected" =>
             /\ \E k \in InFlight("locateR") : tasks' = tasks (-) One(k)
             /\ statusBar'.text = "Quota: Offline"
             /\ statusBar'.tooltip = NotConnectedTooltip
             /\ UNCHANGED <<connectionRetryCount, retryTimers, pollingTimer, intervals,
                            lastSnapshot>>
      ]_vars

\* C12 witness: a refresh found no server while the periodic timer is live
\* and the connection had been discarded
C12_Witness ==
    /\ ev.op = "refreshQuotaNotConnected"
    /\ connection = NoConnection
    /\ intervals # EmptyBag
    /\ statusBar.tooltip = NotConnectedTooltip

\* C13: on every successful fetch the new snapshot becomes the cached
\* snapshot, the same snapshot is the one the status bar holds, and the
\* status bar shows neither the offline/error nor the connecting indication;
\* for every well-formed payload, the ones that yield only the aggregate
\* entry included.
C13_FetchSuccessShowsSnapshot ==
    [][(phase = "active" /\ ev'.op = "refreshQuotaFetched") =>
          /\ lastSnapshot' \in Snapshots
          /\ statusBar'.lastSnapshot = lastSnapshot'
          /\ statusBar'.text \notin {"Quota: Offline", "Quota: Connecting..."}]_vars

\* C14: a configuration change made while a connection is held cancels the
\* periodic timer and leaves exactly one live periodic timer, with the period
\* of the new setting; made while no connection is held it creates no
\* timer; either way the retry counter and the pending re-attempts with
\* their delays are unchanged.
C14_ConfigurationChange ==
    [][ev'.op = "configurationChange" =>
          /\ connection # NoConnection =>
                /\ intervals' = One(intervalMs(pollingIntervalSeconds'))
                /\ pollingTimer' = intervalMs(pollingIntervalSeconds')
          /\ connection = NoConnection => UNCHANGED <<pollingTimer, intervals>>
          /\ UNCHANGED <<connection, connectionRetryCount, retryTimers>>]_vars

\* C14 witness: the setting was changed from the default to 5 s while
\* connected, and the one live timer has the floor period
C14_Witness ==
    /\ ev.op = "configurationChange"
    /\ connection # NoConnection
    /\ pollingIntervalSeconds = 5
    /\ intervals = One(MinPollingIntervalMs)
    /\ pollingTimer = MinPollingIntervalMs

FetchesInFlight ==
    CopiesIn(Task("fetch", FALSE), tasks) + CopiesIn(Task("fetch", TRUE), tasks)

\* C16: at most one fetch is in flight at any time, in every interleaving
\* of timer ticks, manual refreshes and the immediate fetch that follows a
\* successful discovery, while the extension is active.
C16_AtMostOneFetch == phase = "active" => FetchesInFlight <= 1

\* a percentage within [0, 100]
InPercentRange(p) == 0 <= p.num /\ p.num <= 100 * p.den

\* C17: for all raw inputs every entry of the snapshot the fetcher produces
\* has remainingPercentage in [0, 100]: the entries of the fractional
\* shape, of the remaining/total shape and the aggregate-credits entry.
C17_PercentageInRange ==
    (input.fn = "parseResponse" /\ output.done) =>
        \A i \in DOMAIN output.value.models :
            InPercentRange(output.value.models[i].remainingPercentage)

\* parseCommandLine returned a ConnectionInfo
Located == input.fn = "parseCommandLine" /\ output.done /\ output.value # NoConnection

\* C18: every ConnectionInfo the locator produces has a port in 1..65535,
\* for every raw port accepted from a command line, 65534 and 65535 with the
\* offset applied included.
C18_PortInRange == Located => output.value.port \in 1..65535

\* the first argument of a command line that carries the port flag (0 if none)
FirstPortArg(cmdLine) ==
    LET ports == {i \in DOMAIN cmdLine : cmdLine[i].flag = PortFlag}
    IN  IF ports = {} THEN 0 ELSE CHOOSE i \in ports : \A j \in ports : i <= j

\* raw ports written out: 0, 65536 and 70000
OutOfRangePorts ==
    {<<"0">>, <<"6", "5", "5", "3", "6">>, <<"7", "0", "0", "0", "0">>}

\* C19: a command line whose discovered raw port is outside (0, 65535], such
\* as 0 or 70000, yields absent whatever its token and marker are; so the
\* raw port of every ConnectionInfo (its port less the offset 2) is within
\* 1..65535.
C19_RawPortOutOfRangeRejected ==
    (input.fn = "parseCommandLine" /\ output.done) =>
        /\ (/\ FirstPortArg(input.cmdLine) # 0
            /\ input.cmdLine[FirstPortArg(input.cmdLine)].value \in OutOfRangePorts)
              => output.value = NoConnection
        /\ output.value # NoConnection => output.value.port - 2 \in 1..65535

\* C19 witness: raw port 70000 with a valid token and the marker was rejected
C19_Witness ==
    /\ input.fn = "parseCommandLine"
    /\ input.cmdLine = <<Arg(PortFlag, " ", <<"7", "0", "0", "0", "0">>),
                         Arg(TokenFlag, " ", <<"a", "b", "1", "2">>),
                         Arg(MarkerFlag, " ", Antigravity)>>
    /\ output.done
    /\ output.value = NoConnection

\* an argument names the application data directory "antigravity"
NamesAntigravity(arg) ==
    /\ LowerFlag(arg.flag) = MarkerFlag
    /\ Len(arg.value) >= Len(Antigravity)
    /\ \A j \in DOMAIN Antigravity : LowerChar(arg.value[j]) = Antigravity[j]

\* C20: a command line without the identifying marker (--app_data_dir
\* antigravity) never yields a ConnectionInfo, whatever its port and token
\* flags are; a ConnectionInfo is produced only if the port flag, the token
\* flag and the marker are all present.
C20_MarkerRequired ==
    Located =>
        /\ \E i \in DOMAIN input.cmdLine : NamesAntigravity(input.cmdLine[i])
        /\ \E i \in DOMAIN input.cmdLine : input.cmdLine[i].flag = PortFlag
        /\ \E i \in DOMAIN input.cmdLine : input.cmdLine[i].flag = TokenFlag

\* C20 witness: a valid port and a valid token without the marker were
\* rejected
C20_Witness ==
    /\ input.fn = "parseCommandLine"
    /\ input.cmdLine = <<Arg(PortFlag, " ", <<"1", "0", "0", "0">>),
                         Arg(TokenFlag, " ", <<"a", "b", "1", "2">>)>>
    /\ output.done
    /\ output.value = NoConnection

\* the first argument of a command line that carries the token flag (0 if none)
FirstTokenArg(cmdLine) ==
    LET tokens == {i \in DOMAIN cmdLine : cmdLine[i].flag = TokenFlag}
    IN  IF tokens = {} THEN 0 ELSE CHOOSE i \in tokens : \A j \in tokens : i <= j

\* the number a port value starts with, written out for the accepted values
WrittenPort(value) ==
    CASE value = <<"1">> -> 1
      [] value = <<"1", "0", "0", "0">> -> 1000
      [] value = <<"6", "5", "5", "3", "3">> -> 65533
      [] value = <<"6", "5", "5", "3", "4">> -> 65534
      [] value = <<"6", "5", "5", "3", "5">> -> 65535
      [] value = <<"8", "0", "x">> -> 80
      [] OTHER -> -1

\* C21: for every accepted command line the returned port is the raw port
\* after the port flag plus exactly 2 and the returned token is the token
\* after the token flag (port 1000 and token ab12 give 1002 and "ab12").
C21_PortPlusTwoAndToken ==
    Located =>
        /\ output.value.port = WrittenPort(input.cmdLine[FirstPortArg(input.cmdLine)].value) + 2
        /\ output.value.csrfToken = input.cmdLine[FirstTokenArg(input.cmdLine)].value

\* findConnection returned
LocatorDone == input.fn = "findConnection" /\ output.done

\* what a candidate is worth by itself: the two language servers of the
\* application, written out; nothing for any other command line
OwnInfo == [port |-> 1002, csrfToken |-> <<"a", "b", "1", "2">>]
OtherOwnInfo == [port |-> 3002, csrfToken |-> <<"e", "f", "5", "6">>]
ValidAlone(process) == process.cmdLine \in {OwnLine, OtherOwnLine}
InfoAlone(process) == IF process.cmdLine = OwnLine THEN OwnInfo ELSE OtherOwnInfo

\* C22: locate() never raises: for every outcome of every subprocess
\* invocation (timeout, non-zero exit, spawn error, empty output) on either
\* platform the result is a ConnectionInfo or absent; a failure of the
\* process-search command yields absent, and a failure of the per-candidate
\* detail command for one candidate does not abort the search, which
\* continues with the next candidate.
C22_LocateNeverRaises ==
    LocatorDone =>
        /\ output.value # Thrown
        /\ \/ output.value = NoConnection
           \/ /\ DOMAIN output.value = {"port", "csrfToken"}
              /\ output.value.port \in Nat
        /\ input.search # "ok" => output.value = NoConnection
        /\ input.processes = <<>> => output.value = NoConnection
        /\ (input.platform = "posix" /\ input.search = "ok") =>
              \A i \in DOMAIN input.processes :
                  (/\ input.processes[i].detail = "ok"
                   /\ ValidAlone(input.processes[i])
                   /\ \A j \in 1..(i - 1) :
                          \/ input.processes[j].detail # "ok"
                          \/ ~ValidAlone(input.processes[j]))
                    => output.value = InfoAlone(input.processes[i])

\* C22 witness: ps timed out for the first candidate and the search went on
\* to the second, whose ConnectionInfo it returned
C22_Witness ==
    /\ LocatorDone
    /\ input.platform = "posix"
    /\ input.search = "ok"
    /\ input.processes = <<Process("timeout", OwnLine), Process("ok", OtherOwnLine)>>
    /\ output.value = OtherOwnInfo

\* parseResponse returned
Parsed == input.fn = "parseResponse" /\ output.done

\* a percentage is the whole number k
Percent(p, k) == p.num = k * p.den

\* a raw entry carries the fractional-remaining field
CarriesFraction(raw) ==
    Defined(raw.quotaInfo) /\ Defined(raw.quotaInfo[1].remainingFraction)
\* a raw entry carries a usable remaining/total pair
CarriesLegacy(raw) ==
    /\ Defined(raw.limits)
    /\ Defined(raw.limits[1].remaining)
    /\ Defined(raw.limits[1].total)
    /\ raw.limits[1].total[1] > 0

\* the per-model lists of a payload, and the entries of a list that name a
\* model (by label or by model id)
FirstList(raw) == IF Defined(raw.ideChatModels) THEN raw.ideChatModels[1] ELSE <<>>
SecondList(raw) ==
    IF Defined(raw.promptCredits) /\ Defined(raw.promptCredits[1].models)
    THEN raw.promptCredits[1].models[1] ELSE <<>>
RECURSIVE Named(_)
Named(list) ==
    IF list = <<>> THEN <<>>
    ELSE (IF Truthy(Head(list).label) \/ Truthy(Head(list).model)
          THEN <<Head(list)>> ELSE <<>>) \o Named(Tail(list))
\* the list a snapshot's per-model entries are to come from
Consulted(raw) ==
    IF Named(FirstList(raw)) # <<>> THEN Named(FirstList(raw)) ELSE Named(SecondList(raw))

\* the percentages of the inputs, written out: of the fractions -1/2, 0,
\* 1/2, 1 and 3/2, and of remaining -5, 30 and 150 of total 100
FractionPercent(f) ==
    CASE f = Rat(-1, 2) -> 0 [] f = Rat(0, 1) -> 0 [] f = Rat(1, 2) -> 50
      [] f = Rat(1, 1) -> 100 [] f = Rat(3, 2) -> 100
LegacyPercent(remaining) ==
    CASE remaining = -5 -> 0 [] remaining = 30 -> 30 [] remaining = 150 -> 100

\* no entry of the first list is replaced or followed by one of the second
\* list: the second per-model list is read only if the first yields nothing
SecondListOnlyAsFallback ==
    Named(FirstList(input.raw)) # <<>> =>
        /\ Len(output.value.models) = Len(Named(FirstList(input.raw)))
        /\ \A i \in DOMAIN output.value.models :
               LET entry == Named(FirstList(input.raw))[i]
               IN  output.value.models[i].label =
                       IF Truthy(entry.label) THEN entry.label[1] ELSE entry.model[1]

\* C23 as claimed: whenever any per-model entry of the payload carries a
\* fractional-remaining field, no percentage of the snapshot is computed from
\* remaining/total integers (among the inputs only remaining 30 of total 100
\* gives 30 percent; the aggregate entry is left aside), and the second
\* per-model list is read only if the first list yields zero entries.
C23_AnyFractionExcludesLegacy ==
    Parsed =>
        /\ (\/ \E i \in DOMAIN FirstList(input.raw) : CarriesFraction(FirstList(input.raw)[i])
            \/ \E i \in DOMAIN SecondList(input.raw) : CarriesFraction(SecondList(input.raw)[i]))
              => \A i \in DOMAIN output.value.models :
                     \/ output.value.models[i].modelId = Text(<<"prompt_credits">>, "")
                     \/ ~Percent(output.value.models[i].remainingPercentage, 30)
        /\ SecondListOnlyAsFallback

\* C23: for a per-model entry carrying the fractional-remaining field the
\* remaining/total pair of that entry is never consulted, even if both are
\* present: its percentage is the one of the fraction; an entry without the
\* field falls back to its remaining/total pair; and the second per-model
\* list is read only if the first list yields zero entries.
C23_FractionPreferredPerEntry ==
    Parsed =>
        /\ Consulted(input.raw) # <<>> =>
              /\ Len(output.value.models) = Len(Consulted(input.raw))
              /\ \A i \in DOMAIN output.value.models :
                     LET entry == Consulted(input.raw)[i]
                         percentage == output.value.models[i].remainingPercentage
                     IN  /\ CarriesFraction(entry) =>
                               Percent(percentage,
                                       FractionPercent(entry.quotaInfo[1].remainingFraction[1]))
                         /\ (~CarriesFraction(entry) /\ CarriesLegacy(entry)) =>
                               Percent(percentage, LegacyPercent(entry.limits[1].remaining[1]))
        /\ SecondListOnlyAsFallback

\* C23 witness: an entry with the fraction 1/2 and 30 of 100, and a second
\* list with 30 of 100, gave one entry of 50 percent
C23_Witness ==
    /\ Parsed
    /\ input.raw.ideChatModels = Some(<<BothShapes>>)
    /\ Defined(input.raw.promptCredits)
    /\ input.raw.promptCredits[1].models = Some(<<LegacyOnly>>)
    /\ Len(output.value.models) = 1
    /\ output.value.models[1].label = ProHigh
    /\ Percent(output.value.models[1].remainingPercentage, 50)

\* the aggregate remaining/total pair of a payload is valid: both present
\* and the total positive
ValidAggregate(raw) ==
    /\ Defined(raw.promptCredits)
    /\ Defined(raw.promptCredits[1].remaining)
    /\ Defined(raw.promptCredits[1].total)
    /\ raw.promptCredits[1].total[1] > 0

ValidCandidates ==
    {i \in DOMAIN input.processes :
        /\ ValidAlone(input.processes[i])
        /\ input.platform = "posix" => input.processes[i].detail = "ok"}

\* C25: the Process Locator returns the ConnectionInfo of the first
\* candidate, in enumeration order, that is fully valid by itself: port,
\* token and marker of a returned ConnectionInfo come from the command line
\* of one and the same process, on the POSIX and on the Windows strategy; if
\* no single candidate is fully valid the result is absent.
C25_FirstValidCandidate ==
    (LocatorDone /\ input.search = "ok") =>
        IF ValidCandidates = {} THEN output.value = NoConnection
        ELSE output.value =
                 InfoAlone(input.processes[CHOOSE i \in ValidCandidates :
                                               \A j \in ValidCandidates : i <= j])

\* the same on the POSIX strategy alone
PosixFirstValidCandidate ==
    (LocatorDone /\ input.platform = "posix") => C25_FirstValidCandidate

\* groupModels returned
Grouped == input.fn = "groupModels" /\ output.done

\* the place of a model in the input list (the model ids are distinct)
Place(model) == CHOOSE i \in DOMAIN input.models : input.models[i] = model
\* where a model of the input list occurs in the groups
Occurrences(model) ==
    {<<g, k>> \in (DOMAIN output.value) \X (1..Len(input.models)) :
        k <= Len(output.value[g].models) /\ output.value[g].models[k] = model}
\* the families of the labels, written out
Family(label) ==
    CASE label \in {ProHigh, ProLow} -> "Gemini 3 Pro"
      [] label = Sonnet -> "Claude Sonnet"
      [] label = Custom -> "Custom Model"

\* C26: grouping partitions the flat model list: every model appears in
\* exactly one group and the groups hold nothing else, groups are ordered by
\* the first appearance of their key, models keep their input order inside a
\* group, models share a group exactly if they share the key; a list of one
\* to three models yields exactly one group containing all of them.
C26_GroupingPartitions ==
    Grouped =>
        LET groups == output.value
            models == input.models
        IN  /\ \A i \in DOMAIN models : Cardinality(Occurrences(models[i])) = 1
            /\ \A g \in DOMAIN groups :
                   /\ groups[g].models # <<>>
                   /\ \A k \in DOMAIN groups[g].models :
                          \E i \in DOMAIN models : models[i] = groups[g].models[k]
                   /\ \A k, l \in DOMAIN groups[g].models :
                          k < l => Place(groups[g].models[k]) < Place(groups[g].models[l])
            /\ \A g, h \in DOMAIN groups :
                   g < h => /\ Place(groups[g].models[1]) < Place(groups[h].models[1])
                            /\ groups[g].name # groups[h].name
            /\ Len(models) \in 1..3 => Len(groups) = 1 /\ groups[1].models = models
            /\ Len(models) > 3 =>
                   \A g, h \in DOMAIN groups :
                       \A k \in DOMAIN groups[g].models, l \in DOMAIN groups[h].models :
                           (g = h) <=> (Family(groups[g].models[k].label)
                                          = Family(groups[h].models[l].label))

\* C26 witness: four models of three families were put into three groups,
\* the two Gemini 3 Pro models together in the first
C26_Witness ==
    /\ Grouped
    /\ input.models = ModelList(<<ProHigh, Sonnet, ProLow, Custom>>)
    /\ Len(output.value) = 3
    /\ output.value[1].models = <<input.models[1], input.models[3]>>
    /\ output.value[2].models = <<input.models[2]>>
    /\ output.value[3].models = <<input.models[4]>>

\* C27: whenever the orchestrator is active (not deactivated), holds a
\* connection and has no locate or fetch in progress, a periodic refresh
\* timer is active, however the connection was obtained (the silent
\* rediscovery inside a manual refresh included).
C27_ConnectedImpliesPolling ==
    (phase = "active" /\ connection # NoConnection /\ AtRest) => pollingTimer # NoTimer

\* C28: at any time at most one scheduled discovery re-attempt (backoff
\* callback) is pending, in every interleaving of activation-time discovery,
\* manual refreshes, timer ticks and transport-failure-triggered
\* rediscovery: two retry chains never coexist.
C28_AtMostOneRetryPending == phase = "active" => BagCardinality(retryTimers) <= 1

====
